---- MODULE Spec2Model ----
(***************************************************************************)
(* Model of cache-logs.py: the incremental mirror of S3 access-log objects *)
(* into a sqlite database (listing, diff against consumed_logs, batched    *)
(* download / insert / commit / delete).                                   *)
(*                                                                         *)
(* Strings are sequences of one-character strings, so that os.path         *)
(* dirname / basename / join and sorted() are computed, not assumed.       *)
(* "l" stands for the directory "logs", "m" for any other directory.       *)
(* The timestamp column of consumed_logs (time.ctime()) is not modelled.   *)
(* Object names hold no quote character (S3 names access logs by date and  *)
(* a hexadecimal string), so the substitution of values into the SQL text  *)
(* stores them unchanged.  One process runs at a time; runs follow one     *)
(* another.  The store may report the keys of a listing in any order.      *)
(***************************************************************************)
EXTENDS Naturals, Sequences, FiniteSets, TLC

(* ------------------------------ bounds --------------------------------- *)

\* number of runs of the program in one behaviour
MaxRuns == 2

\* size of a batch in the model; see limit
BatchLimit == 2

\* keys per listing page in the model (S3 returns up to 1000 per page)
PageSize == 2

\* largest value of --pages tried (0 stands for "not given")
MaxPages == 1

\* worker threads of a pool in the model; see workers
MaxWorkers == 2

\* number of remote objects that may disappear in one behaviour
MaxVanish == 1

(* ------------------------------ strings -------------------------------- *)

Slash == "/"

\* code point order of the characters used
Rank(c) ==
    CASE c = "/" -> 0
      [] c = "a" -> 1
      [] c = "b" -> 2
      [] c = "c" -> 3
      [] c = "l" -> 4
      [] c = "m" -> 5

\* Python's < on str: lexicographic on code points
RECURSIVE StrLess(_, _)
StrLess(a, b) ==
    IF b = <<>> THEN FALSE
    ELSE IF a = <<>> THEN TRUE
    ELSE IF Rank(Head(a)) < Rank(Head(b)) THEN TRUE
    ELSE IF Rank(Head(a)) > Rank(Head(b)) THEN FALSE
    ELSE StrLess(Tail(a), Tail(b))

\* str.rfind('/') + 1 : the index just after the last slash, 0 if none
RECURSIVE RFindSlash(_, _)
RFindSlash(p, n) ==
    IF n = 0 THEN 0
    ELSE IF p[n] = Slash THEN n
    ELSE RFindSlash(p, n - 1)

\* str.rstrip('/')
RECURSIVE RStripSlash(_)
RStripSlash(p) ==
    IF p = <<>> THEN p
    ELSE IF p[Len(p)] = Slash THEN RStripSlash(SubSeq(p, 1, Len(p) - 1))
    ELSE p

\* os.path.basename
basename(p) == SubSeq(p, RFindSlash(p, Len(p)) + 1, Len(p))

\* os.path.dirname
dirname(p) ==
    LET head == SubSeq(p, 1, RFindSlash(p, Len(p)))
    IN  IF head # <<>> /\ (\E n \in 1..Len(head) : head[n] # Slash)
        THEN RStripSlash(head)
        ELSE head

\* os.path.join of two components
join(a, b) ==
    IF b # <<>> /\ b[1] = Slash THEN b
    ELSE IF a = <<>> \/ a[Len(a)] = Slash THEN a \o b
    ELSE a \o <<Slash>> \o b

\* str.startswith
StartsWith(s, pre) ==
    /\ Len(pre) <= Len(s)
    /\ SubSeq(s, 1, Len(pre)) = pre

Range(s) == {s[n] : n \in 1..Len(s)}

\* the orders in which the elements of a finite set can be enumerated
RECURSIVE Enumerations(_)
Enumerations(S) ==
    IF S = {} THEN {<<>>}
    ELSE UNION {{<<x>> \o s : s \in Enumerations(S \ {x})} : x \in S}

\* sorted() on a list of str: insertion into an ordered list
RECURSIVE Insert(_, _)
Insert(x, s) ==
    IF s = <<>> THEN <<x>>
    ELSE IF StrLess(Head(s), x) THEN <<Head(s)>> \o Insert(x, Tail(s))
    ELSE <<x>> \o s

RECURSIVE sorted(_)
sorted(s) == IF s = <<>> THEN <<>> ELSE Insert(Head(s), sorted(Tail(s)))

(* --------------------------- the object store -------------------------- *)

\* the keys an object of the bucket may have
Universe ==
    { <<"l", "/", "a">>, <<"l", "/", "b">>, <<"l", "/", "c">>, <<"m", "/", "a">> }

\* a log line: which object and line it is, and how many fields csv.reader
\* finds in it
Line(key, n, nfields) == [obj |-> key, no |-> n, nfields |-> nfields]

\* the highest field index insert_log_db reads is 17
NeededFields == 18

\* the values of --date tried: not given, "a" or "aa"
Dates == {<<>>, <<"a">>, <<"a", "a">>}

\* get_s3_keys: the Prefix argument of list_objects_v2
Prefix(date) == IF date # <<>> THEN <<"l", "/">> \o date ELSE <<>>

\* the keys of the bucket that list_objects_v2 reports for a prefix
Matching(bucket, prefix) == {key \in bucket : StartsWith(key, prefix)}

\* get_s3_keys: the loop over the pages of a listing. all is the whole
\* listing in the order the store reports it, i the number of pages fetched
\* so far, pages the value of --pages (0 when not given).  A response
\* without keys has no 'Contents' entry, and resp['Contents'] raises.
RECURSIVE PageLoop(_, _, _)
PageLoop(all, i, pages) ==
    LET page == SubSeq(all, 1, IF Len(all) < PageSize THEN Len(all) ELSE PageSize)
        rest == SubSeq(all, Len(page) + 1, Len(all))
    IN  IF page = <<>> THEN [raised |-> TRUE, keys |-> <<>>]
        ELSE IF rest = <<>> THEN [raised |-> FALSE, keys |-> page]
        ELSE IF pages # 0 /\ i >= pages THEN [raised |-> FALSE, keys |-> page]
        ELSE LET more == PageLoop(rest, i + 1, pages)
             IN  [raised |-> more.raised, keys |-> page \o more.keys]

get_s3_keys(all, pages) == PageLoop(all, 1, pages)

(* ------------------------------ the diff ------------------------------- *)

\* variant: the consumed names are not subtracted
NewLogsAll(s3_logs, consumed_logs) == {basename(x) : x \in Range(s3_logs)}

\* get_uncached_logs, lines 168-176.  new_logs is list(set - set) in the
\* order the set happens to be iterated.  s3_logs[0] raises on an empty list.
NewLogs(s3_logs, consumed_logs) ==
    {basename(x) : x \in Range(s3_logs)} \ consumed_logs

NewKeys(s3_logs, new_logs) ==
    [n \in 1..Len(new_logs) |-> join(dirname(s3_logs[1]), new_logs[n])]

\* variant: the listed keys whose base name is new are returned as listed
ListedNewKeys(s3_logs, new_logs) ==
    sorted(SelectSeq(s3_logs, LAMBDA x : basename(x) \in Range(new_logs)))

\* get_uncached_logs: the return value
get_uncached_logs(s3_logs, new_logs) == sorted(NewKeys(s3_logs, new_logs))

(* ------------------------------- state --------------------------------- *)

VARIABLES
    remote,      \* the keys of the objects now in the bucket
    vanished,    \* how many objects have disappeared from the bucket
    staged,      \* cache_dir: file name -> key of the object it holds, or NoFile
    consumed,    \* table consumed_logs, committed rows, in insertion order
    usage,       \* table usage, committed rows, in insertion order
    txConsumed,  \* rows inserted into consumed_logs and not yet committed
    txUsage,     \* rows inserted into usage and not yet committed
    pc,          \* position of the control loop
    run,         \* number of runs started
    initdb,      \* opts.initdb of the current run
    s3_logs,     \* get_uncached_logs: the listing, while the function runs
    listed,      \* the keys the listing of the current run held
    logs,        \* cache: the keys not yet taken into a batch
    batch,       \* cache: the current batch
    i,           \* cache: number of batches completed
    dl,          \* download pool: state of the task of each batch entry
    k,           \* cache: index of the next batch entry to insert
    rm,          \* delete pool: state of the task of each batch entry
    skipped,     \* batch entries whose download reported 404 in this batch
    committed,   \* conn.commit() of the current batch has returned
    db0,         \* the two tables as they were when the current run read consumed_logs
    failedIn,    \* position at which the current run stopped, or "none"
    cause,       \* what stopped the current run, or "none"
    short,       \* the objects of the bucket that hold a line cut short
    other,       \* a second evaluation of the diff, for comparison
    prev,        \* what the previous run listed and how it ended
    diff0,       \* cache: the list it was called with
    taken,       \* cache: the batches taken so far, in order
    staged0,     \* cache_dir as the current run found it
    lister       \* get_s3_keys on its own: its arguments and its result

vars == <<remote, vanished, staged, consumed, usage, txConsumed, txUsage, pc, run,
          initdb, s3_logs, listed, logs, batch, i, dl, k, rm, skipped, committed,
          db0, failedIn, cause, short, other, prev,
                   diff0, taken, staged0, lister>>

NoFile == <<"no file">>

FileNames == {basename(key) : key \in Universe}

\* the filename column of the rows of consumed_logs
Names(rows) == {rows[n].filename : n \in 1..Len(rows)}

NoPrev == [ended |-> "none", listed |-> {}, batch |-> {}, k |-> 0, rest |-> {},
           why |-> "none"]

\* get_s3_keys not called
NoLister == [all |-> <<>>, pages |-> 0, token |-> <<>>, i |-> 0, keys |-> <<>>,
             requests |-> <<>>, pc |-> "idle"]

NoDb == [consumed |-> <<>>, usage |-> <<>>]

NoOther == [s3_logs |-> <<>>, logs |-> <<>>]

\* the objects that may hold a line cut short: none, or m/a
ShortChoices == {{}, {<<"m", "/", "a">>}}

Init ==
    /\ remote = Universe
    /\ vanished = 0
    /\ staged = [f \in FileNames |-> NoFile]
    /\ consumed = <<>>
    /\ usage = <<>>
    /\ txConsumed = <<>>
    /\ txUsage = <<>>
    /\ pc = "idle"
    /\ run = 0
    /\ initdb = FALSE
    /\ s3_logs = <<>>
    /\ listed = {}
    /\ logs = <<>>
    /\ batch = <<>>
    /\ i = 0
    /\ dl = <<>>
    /\ k = 0
    /\ rm = <<>>
    /\ skipped = {}
    /\ committed = FALSE
    /\ db0 = NoDb
    /\ failedIn = "none"
    /\ cause = "none"
    /\ short \in ShortChoices
    /\ other = NoOther
    /\ prev = NoPrev
    /\ diff0 = <<>>
    /\ taken = <<>>
    /\ staged0 = [f \in FileNames |-> NoFile]
    /\ lister = NoLister

\* cache: limit = 1000, scaled to the model
limit == BatchLimit

\* opts.workers (default 10), scaled to the model
workers == MaxWorkers

\* the lines of an object: one per character of the table below, the last
\* one cut short when the object is in short
NLines(key) ==
    CASE key = <<"l", "/", "a">> -> 1
      [] key = <<"l", "/", "b">> -> 2
      [] key = <<"l", "/", "c">> -> 0
      [] key = <<"m", "/", "a">> -> 2

Content(key) ==
    [n \in 1..NLines(key) |->
        Line(key, n, IF key \in short /\ n = NLines(key) THEN NeededFields - 1 ELSE NeededFields)]

\* the file names in consumed_logs when the current run read the table
consumed0 == Names(db0.consumed)

\* the positions of cache
Running == {"loop", "download", "insert", "commit", "delete"}

\* variant: every insert is durable at once (a connection in autocommit mode)
AfterExitKeep(rows, pending) == rows \o pending

\* what a table holds after the process has ended with rows inserted and
\* not committed: sqlite rolls the open transaction back
AfterExit(rows, pending) == rows

\* an uncaught exception or a kill ends the process with pendingC and
\* pendingU inserted and not committed; everything else stays as it is
Stop(at, why, pendingC, pendingU) ==
    /\ pc' = "failed"
    /\ failedIn' = at
    /\ cause' = why
    /\ consumed' = AfterExit(consumed, pendingC)
    /\ usage' = AfterExit(usage, pendingU)
    /\ txConsumed' = <<>>
    /\ txUsage' = <<>>

(* ------------------------------- main ---------------------------------- *)

\* init_db: the database file is moved away and empty tables are created
init_db(rows) == <<>>

\* main up to the return of get_s3_keys: makedirs, init_db when --initdb is
\* given, then the listing.  The store reports the matching keys page by
\* page in an order of its own; a transport error or an empty listing raises.
StartRun ==
    /\ pc \in {"idle", "done", "failed"}
    /\ run < MaxRuns
    /\ \E idb \in BOOLEAN, date \in Dates, pages \in 0..MaxPages, transport \in BOOLEAN :
       \E all \in Enumerations(Matching(remote, Prefix(date))) :
          LET res == get_s3_keys(all, pages)
          IN  /\ run' = run + 1
              /\ initdb' = idb
              /\ prev' = [ended |-> IF pc = "failed" THEN failedIn ELSE pc,
                          listed |-> listed, batch |-> Range(batch), k |-> k,
                          rest |-> Range(logs),
                          why |-> IF pc = "failed" THEN cause ELSE "none"]
              /\ consumed' = IF idb THEN init_db(consumed) ELSE consumed
              /\ usage' = IF idb THEN init_db(usage) ELSE usage
              /\ logs' = <<>>
              /\ batch' = <<>>
              /\ i' = 0
              /\ dl' = <<>>
              /\ k' = 0
              /\ rm' = <<>>
              /\ skipped' = {}
              /\ committed' = FALSE
              /\ db0' = NoDb
              /\ txConsumed' = <<>>
              /\ txUsage' = <<>>
              /\ IF transport \/ res.raised
                 THEN /\ pc' = "failed"
                      /\ failedIn' = "listing"
                      /\ cause' = IF transport THEN "transport" ELSE "no Contents"
                      /\ s3_logs' = <<>>
                      /\ listed' = {}
                 ELSE /\ pc' = "listed"
                      /\ failedIn' = "none"
                      /\ cause' = "none"
                      /\ s3_logs' = res.keys
                      /\ listed' = Range(res.keys)
    /\ diff0' = <<>>
    /\ taken' = <<>>
    /\ staged0' = staged
    /\ UNCHANGED <<remote, vanished, staged, short, other, lister>>

\* get_uncached_logs after the listing (lines 159-176), and the call of cache
Diff ==
    /\ pc = "listed"
    /\ \E new_logs \in Enumerations(NewLogs(s3_logs, Names(consumed))) :
          /\ logs' = get_uncached_logs(s3_logs, new_logs)
          /\ diff0' = get_uncached_logs(s3_logs, new_logs)
    /\ db0' = [consumed |-> consumed, usage |-> usage]
    /\ s3_logs' = <<>>
    /\ pc' = "loop"
    /\ UNCHANGED <<remote, vanished, staged, consumed, usage, txConsumed, txUsage, run,
                   initdb, listed, batch, i, dl, k, rm, skipped, committed, failedIn, cause,
                   short, other, prev, taken, staged0, lister>>

(* ------------------------------- cache --------------------------------- *)

\* logs[:limit]
Take(s, n) == SubSeq(s, 1, IF Len(s) < n THEN Len(s) ELSE n)

\* del logs[:limit - 1]: one entry of the batch is left in the list
DropShort(s, n) == SubSeq(s, (IF Len(s) < n THEN Len(s) ELSE n - 1) + 1, Len(s))

\* what del logs[:limit] leaves
Drop(s, n) == SubSeq(s, (IF Len(s) < n THEN Len(s) ELSE n) + 1, Len(s))

\* while logs: take the next batch and start the download pool
TakeBatch ==
    /\ pc = "loop"
    /\ logs # <<>>
    /\ batch' = Take(logs, limit)
    /\ logs' = Drop(logs, limit)
    /\ dl' = [j \in 1..Len(Take(logs, limit)) |-> "todo"]
    /\ rm' = [j \in 1..Len(Take(logs, limit)) |-> "todo"]
    /\ skipped' = {}
    /\ k' = 1
    /\ committed' = FALSE
    /\ taken' = Append(taken, Take(logs, limit))
    /\ pc' = "download"
    /\ UNCHANGED <<remote, vanished, staged, consumed, usage, txConsumed, txUsage, run,
                   initdb, s3_logs, listed, i, db0, failedIn, cause, short, other, prev,
                   diff0, staged0, lister>>

\* while logs: the list is empty, cache and main return
Finish ==
    /\ pc = "loop"
    /\ logs = <<>>
    /\ pc' = "done"
    /\ UNCHANGED <<remote, vanished, staged, consumed, usage, txConsumed, txUsage, run,
                   initdb, s3_logs, listed, logs, batch, i, dl, k, rm, skipped, committed,
                   db0, failedIn, cause, short, other, prev,
                   diff0, taken, staged0, lister>>

\* variant: the staged files are deleted before conn.commit()
PhaseAfterDeleteFirst(p) ==
    CASE p = "download" -> "insert"
      [] p = "insert" -> "delete"
      [] p = "delete" -> "commit"
      [] p = "commit" -> "loop"

\* the phases with conn.commit() left out: the rows stay pending
PhaseAfterNoCommit(p) ==
    CASE p = "download" -> "insert"
      [] p = "insert" -> "delete"
      [] p = "commit" -> "delete"
      [] p = "delete" -> "loop"

\* the phases with the pool of deletes left out: the batch ends at the commit
PhaseAfterNoDelete(p) ==
    CASE p = "download" -> "insert"
      [] p = "insert" -> "commit"
      [] p = "commit" -> "loop"
      [] p = "delete" -> "loop"

\* the order of the phases of a batch in cache
PhaseAfter(p) ==
    CASE p = "download" -> "insert"
      [] p = "insert" -> "commit"
      [] p = "commit" -> "delete"
      [] p = "delete" -> "loop"

\* number of tasks of a pool that a worker is running
Busy(tasks) == Cardinality({j \in 1..Len(tasks) : tasks[j] = "run"})

\* a free worker of the download pool takes a task
DownloadStart ==
    /\ pc = "download"
    /\ Busy(dl) < workers
    /\ \E j \in 1..Len(batch) :
          /\ dl[j] = "todo"
          /\ dl' = [dl EXCEPT ![j] = "run"]
    /\ UNCHANGED <<remote, vanished, staged, consumed, usage, txConsumed, txUsage, pc, run,
                   initdb, s3_logs, listed, logs, batch, i, k, rm, skipped, committed,
                   db0, failedIn, cause, short, other, prev,
                   diff0, taken, staged0, lister>>

\* s3_download: the file name the object is stored under
LocalFile(key) == basename(key)

\* s3_download, the object exists: download_file writes it to local_file
DownloadOk ==
    /\ pc = "download"
    /\ \E j \in 1..Len(batch) :
          /\ dl[j] = "run"
          /\ batch[j] \in remote
          /\ staged' = [staged EXCEPT ![LocalFile(batch[j])] = batch[j]]
          /\ dl' = [dl EXCEPT ![j] = "done"]
    /\ UNCHANGED <<remote, vanished, consumed, usage, txConsumed, txUsage, pc, run,
                   initdb, s3_logs, listed, logs, batch, i, k, rm, skipped, committed,
                   db0, failedIn, cause, short, other, prev,
                   diff0, taken, staged0, lister>>

\* s3_download, ClientError 404: the object is not in the bucket, or has
\* just disappeared from it; a message is printed, nothing is raised
DownloadNotFound ==
    /\ pc = "download"
    /\ \E j \in 1..Len(batch) :
          /\ dl[j] = "run"
          /\ \/ /\ batch[j] \notin remote
                /\ UNCHANGED <<remote, vanished>>
             \/ /\ batch[j] \in remote
                /\ vanished < MaxVanish
                /\ remote' = remote \ {batch[j]}
                /\ vanished' = vanished + 1
          /\ dl' = [dl EXCEPT ![j] = "done"]
          /\ skipped' = skipped \cup {j}
    /\ UNCHANGED <<staged, consumed, usage, txConsumed, txUsage, pc, run,
                   initdb, s3_logs, listed, logs, batch, i, k, rm, committed,
                   db0, failedIn, cause, short, other, prev,
                   diff0, taken, staged0, lister>>

\* s3_download, any other ClientError: re-raised, pool.map raises it in cache
DownloadError ==
    /\ pc = "download"
    /\ \E j \in 1..Len(batch) : dl[j] = "run"
    /\ Stop("download", "transport", txConsumed, txUsage)
    /\ UNCHANGED <<remote, vanished, staged, run,
                   initdb, s3_logs, listed, logs, batch, i, dl, k, rm, skipped, committed,
                   db0, short, other, prev,
                   diff0, taken, staged0, lister>>

\* pool.map / close / join return once every task of the pool is done
Joined(tasks) == \A j \in 1..Len(tasks) : tasks[j] = "done"

\* the pool is not waited for: the inserts start while workers may still run
JoinDownloadsEarly ==
    /\ pc = "download"
    /\ pc' = PhaseAfter("download")
    /\ UNCHANGED <<remote, vanished, staged, consumed, usage, txConsumed, txUsage, run,
                   initdb, s3_logs, listed, logs, batch, i, dl, k, rm, skipped, committed,
                   db0, failedIn, cause, short, other, prev,
                   diff0, taken, staged0, lister>>

\* pool.map returns the results of the download pool
JoinDownloads ==
    /\ pc = "download"
    /\ Joined(dl)
    /\ pc' = PhaseAfter("download")
    /\ UNCHANGED <<remote, vanished, staged, consumed, usage, txConsumed, txUsage, run,
                   initdb, s3_logs, listed, logs, batch, i, dl, k, rm, skipped, committed,
                   db0, failedIn, cause, short, other, prev,
                   diff0, taken, staged0, lister>>

\* a phase of a batch is over: the next one starts, and after the last
\* one i += 1 and the loop condition is tested again
Advance(p) ==
    /\ pc' = PhaseAfter(p)
    /\ i' = IF PhaseAfter(p) = "loop" THEN i + 1 ELSE i

\* variant: the full key is written, not its base name
ConsumedNameFull(key) == key

\* insert_log_db: the value written to consumed_logs.filename
ConsumedName(key) == basename(key)

\* insert_log_db: the lines of the file before the first one that has too
\* few fields (fields[17] raises IndexError on it)
RECURSIVE Parsed(_)
Parsed(lines) ==
    IF lines = <<>> THEN <<>>
    ELSE IF Head(lines).nfields < NeededFields THEN <<>>
    ELSE <<Head(lines)>> \o Parsed(Tail(lines))

\* variant: a key without a staged file is passed over, nothing is raised
insert_log_db_lenient(key, held) ==
    IF held = NoFile
    THEN [raised |-> FALSE, why |-> "none", consumed |-> <<>>, usage |-> <<>>]
    ELSE [raised |-> Len(Parsed(Content(held))) < Len(Content(held)),
          why |-> "short line",
          consumed |-> <<[filename |-> ConsumedName(key), size |-> Len(Content(held))]>>,
          usage |-> Parsed(Content(held))]

\* insert_log_db(key) on the staged file holding the object of key `held`:
\* the rows it executes and whether it raises
insert_log_db(key, held) ==
    IF held = NoFile  \* os.stat raises
    THEN [raised |-> TRUE, why |-> "missing file", consumed |-> <<>>, usage |-> <<>>]
    ELSE [raised |-> Len(Parsed(Content(held))) < Len(Content(held)),
          why |-> "short line",
          consumed |-> <<[filename |-> ConsumedName(key), size |-> Len(Content(held))]>>,
          usage |-> Parsed(Content(held))]

\* the rows are inserted as the results of the pool arrive, last entry first
InsertLogDbLastFirst ==
    /\ pc = "insert"
    /\ k <= Len(batch)
    /\ LET key == batch[Len(batch) + 1 - k]
           r == insert_log_db(key, staged[LocalFile(key)])
       IN  IF r.raised
           THEN /\ Stop("insert", r.why, txConsumed \o r.consumed, txUsage \o r.usage)
                /\ UNCHANGED <<i, k>>
           ELSE /\ txConsumed' = txConsumed \o r.consumed
                /\ txUsage' = txUsage \o r.usage
                /\ k' = k + 1
                /\ IF k = Len(batch)
                   THEN Advance("insert")
                   ELSE UNCHANGED <<pc, i>>
                /\ UNCHANGED <<consumed, usage, failedIn, cause>>
    /\ UNCHANGED <<remote, vanished, staged, run, initdb, s3_logs, listed, logs, batch, dl, rm,
                   skipped, committed, db0, short, other, prev,
                   diff0, taken, staged0, lister>>

\* for key in batch: insert_log_db(key), one entry per step
InsertLogDb ==
    /\ pc = "insert"
    /\ k <= Len(batch)
    /\ LET r == insert_log_db(batch[k], staged[LocalFile(batch[k])])
       IN  IF r.raised
           THEN /\ Stop("insert", r.why, txConsumed \o r.consumed, txUsage \o r.usage)
                /\ UNCHANGED <<i, k>>
           ELSE /\ txConsumed' = txConsumed \o r.consumed
                /\ txUsage' = txUsage \o r.usage
                /\ k' = k + 1
                /\ IF k = Len(batch)
                   THEN Advance("insert")
                   ELSE UNCHANGED <<pc, i>>
                /\ UNCHANGED <<consumed, usage, failedIn, cause>>
    /\ UNCHANGED <<remote, vanished, staged, run, initdb, s3_logs, listed, logs, batch, dl, rm,
                   skipped, committed, db0, short, other, prev,
                   diff0, taken, staged0, lister>>

\* conn.commit()
Commit ==
    /\ pc = "commit"
    /\ consumed' = consumed \o txConsumed
    /\ usage' = usage \o txUsage
    /\ txConsumed' = <<>>
    /\ txUsage' = <<>>
    /\ committed' = TRUE
    /\ Advance("commit")
    /\ UNCHANGED <<remote, vanished, staged, run, initdb, s3_logs, listed, logs, batch, dl, k, rm,
                   skipped, db0, failedIn, cause, short, other, prev,
                   diff0, taken, staged0, lister>>

\* a free worker of the delete pool takes a task
DeleteStart ==
    /\ pc = "delete"
    /\ Busy(rm) < workers
    /\ \E j \in 1..Len(batch) :
          /\ rm[j] = "todo"
          /\ rm' = [rm EXCEPT ![j] = "run"]
    /\ UNCHANGED <<remote, vanished, staged, consumed, usage, txConsumed, txUsage, pc, run,
                   initdb, s3_logs, listed, logs, batch, i, dl, k, skipped, committed,
                   db0, failedIn, cause, short, other, prev,
                   diff0, taken, staged0, lister>>

\* delete_local_file: os.remove raises when the file is not there
DeleteLocalFile ==
    /\ pc = "delete"
    /\ \E j \in 1..Len(batch) :
          /\ rm[j] = "run"
          /\ IF staged[LocalFile(batch[j])] = NoFile
             THEN /\ Stop("delete", "missing file", txConsumed, txUsage)
                  /\ UNCHANGED <<staged, rm>>
             ELSE /\ staged' = [staged EXCEPT ![LocalFile(batch[j])] = NoFile]
                  /\ rm' = [rm EXCEPT ![j] = "done"]
                  /\ UNCHANGED <<consumed, usage, txConsumed, txUsage, pc, failedIn, cause>>
    /\ UNCHANGED <<remote, vanished, run, initdb, s3_logs, listed, logs, batch, i, dl, k,
                   skipped, committed, db0, short, other, prev,
                   diff0, taken, staged0, lister>>

\* the pool is not waited for: the loop goes on while workers may still run
JoinDeletesEarly ==
    /\ pc = "delete"
    /\ Advance("delete")
    /\ UNCHANGED <<remote, vanished, staged, consumed, usage, txConsumed, txUsage, run,
                   initdb, s3_logs, listed, logs, batch, dl, k, rm, skipped, committed,
                   db0, failedIn, cause, short, other, prev,
                   diff0, taken, staged0, lister>>

\* pool.join returns: the batch is over
JoinDeletes ==
    /\ pc = "delete"
    /\ Joined(rm)
    /\ Advance("delete")
    /\ UNCHANGED <<remote, vanished, staged, consumed, usage, txConsumed, txUsage, run,
                   initdb, s3_logs, listed, logs, batch, dl, k, rm, skipped, committed,
                   db0, failedIn, cause, short, other, prev,
                   diff0, taken, staged0, lister>>

(* ---------------------------- environment ------------------------------ *)

\* the process is interrupted or killed at any point of a run
Crash ==
    /\ pc \in Running
    /\ Stop(pc, "crash", txConsumed, txUsage)
    /\ UNCHANGED <<remote, vanished, staged, run, initdb, s3_logs, listed, logs, batch, i, dl, k,
                   rm, skipped, committed, db0, short, other, prev,
                   diff0, taken, staged0, lister>>

Next ==
    \/ StartRun
    \/ Diff
    \/ TakeBatch
    \/ Finish
    \/ DownloadStart
    \/ DownloadOk
    \/ DownloadNotFound
    \/ DownloadError
    \/ JoinDownloads
    \/ InsertLogDb
    \/ Commit
    \/ DeleteStart
    \/ DeleteLocalFile
    \/ JoinDeletes
    \/ Crash

Spec == Init /\ [][Next]_vars

(* ------------------------- the diff on its own ------------------------- *)

\* longest listing handed to the diff on its own
MaxListing == 3

\* the keys of those listings: the bucket's, one more under m, one under no
\* directory
DiffUniverse == Universe \cup {<<"m", "/", "b">>, <<"c">>}

\* the lists of distinct keys of length 0..MaxListing
DiffLists ==
    UNION {Enumerations(S) : S \in {T \in SUBSET DiffUniverse : Cardinality(T) <= MaxListing}}

\* a table consumed_logs holding the names in order
RowsOf(names) == [n \in 1..Len(names) |-> [filename |-> names[n], size |-> 0]]

DiffInit ==
    /\ remote = Universe
    /\ vanished = 0
    /\ staged = [f \in FileNames |-> NoFile]
    /\ \E S \in SUBSET {basename(key) : key \in DiffUniverse} :
          consumed \in {RowsOf(e) : e \in Enumerations(S)}
    /\ usage = <<>>
    /\ txConsumed = <<>>
    /\ txUsage = <<>>
    /\ pc = "listed"
    /\ run = 1
    /\ initdb = FALSE
    /\ s3_logs \in DiffLists
    /\ listed = {}
    /\ logs = <<>>
    /\ batch = <<>>
    /\ i = 0
    /\ dl = <<>>
    /\ k = 0
    /\ rm = <<>>
    /\ skipped = {}
    /\ committed = FALSE
    /\ db0 = NoDb
    /\ failedIn = "none"
    /\ cause = "none"
    /\ short = {}
    /\ other = NoOther
    /\ prev = NoPrev
    /\ diff0 = <<>>
    /\ taken = <<>>
    /\ staged0 = [f \in FileNames |-> NoFile]
    /\ lister = NoLister

\* get_uncached_logs on the listing s3_logs; s3_logs[0] raises IndexError
\* on an empty list.  The listing is kept for the comparison.
DiffFirst ==
    /\ pc = "listed"
    /\ IF s3_logs = <<>>
       THEN /\ Stop("listing", "empty list", txConsumed, txUsage)
            /\ UNCHANGED logs
       ELSE /\ \E new_logs \in Enumerations(NewLogs(s3_logs, Names(consumed))) :
                  logs' = get_uncached_logs(s3_logs, new_logs)
            /\ pc' = "diffed"
            /\ UNCHANGED <<consumed, usage, txConsumed, txUsage, failedIn, cause>>
    /\ UNCHANGED <<remote, vanished, staged, run, initdb, s3_logs, listed, batch, i, dl, k,
                   rm, skipped, committed, db0, short, other, prev,
                   diff0, taken, staged0, lister>>

\* another run on the same bucket and the same consumed_logs: the store
\* reports the same keys in an order of its own
DiffSecond ==
    /\ pc = "diffed"
    /\ \E again \in Enumerations(Range(s3_logs)) :
       \E new_logs \in Enumerations(NewLogs(again, Names(consumed))) :
          other' = [s3_logs |-> again, logs |-> get_uncached_logs(again, new_logs)]
    /\ pc' = "compared"
    /\ UNCHANGED <<remote, vanished, staged, consumed, usage, txConsumed, txUsage, run,
                   initdb, s3_logs, listed, logs, batch, i, dl, k, rm, skipped, committed,
                   db0, failedIn, cause, short, prev, diff0, taken, staged0, lister>>

DiffNext == DiffFirst \/ DiffSecond

DiffSpec == DiffInit /\ [][DiffNext]_vars

\* cache: the batches the loop takes from a list, in order
RECURSIVE Batches(_)
Batches(list) ==
    IF list = <<>> THEN <<>>
    ELSE <<Take(list, limit)>> \o Batches(Drop(list, limit))

(* ----------------------- get_s3_keys on its own ------------------------ *)

\* the largest value of --pages tried on the lister on its own
MaxCap == 3

\* list_objects_v2 on a prefix that matches the keys all, in the order the
\* store reports them.  A continuation token stands for the number of keys
\* already reported; token is <<>> when the request carries none.  The
\* response has no 'Contents' entry when it holds no key and no
\* 'NextContinuationToken' entry when it is the last page.
list_objects_v2(all, token) ==
    LET from == IF token = <<>> THEN 0 ELSE token[1]
        upto == IF Len(all) < from + PageSize THEN Len(all) ELSE from + PageSize
    IN  [Contents |-> SubSeq(all, from + 1, upto),
         NextContinuationToken |-> IF upto < Len(all) THEN <<upto>> ELSE <<>>]

\* get_s3_keys is called on a prefix that matches any list of distinct keys,
\* with --pages not given (0) or 1..MaxCap
ListInit ==
    /\ remote = Universe
    /\ vanished = 0
    /\ staged = [f \in FileNames |-> NoFile]
    /\ consumed = <<>>
    /\ usage = <<>>
    /\ txConsumed = <<>>
    /\ txUsage = <<>>
    /\ pc = "idle"
    /\ run = 0
    /\ initdb = FALSE
    /\ s3_logs = <<>>
    /\ listed = {}
    /\ logs = <<>>
    /\ batch = <<>>
    /\ i = 0
    /\ dl = <<>>
    /\ k = 0
    /\ rm = <<>>
    /\ skipped = {}
    /\ committed = FALSE
    /\ db0 = NoDb
    /\ failedIn = "none"
    /\ cause = "none"
    /\ short = {}
    /\ other = NoOther
    /\ prev = NoPrev
    /\ diff0 = <<>>
    /\ taken = <<>>
    /\ staged0 = [f \in FileNames |-> NoFile]
    /\ \E S \in SUBSET DiffUniverse, pages \in 0..MaxCap :
       \E all \in Enumerations(S) :
          lister = [NoLister EXCEPT !.all = all, !.pages = pages, !.pc = "loop"]

\* get_s3_keys: one pass of the while loop
ListPage ==
    /\ lister.pc = "loop"
    /\ LET resp == list_objects_v2(lister.all, lister.token)
           n == lister.i + 1
           asked == [lister EXCEPT !.i = n, !.requests = Append(@, lister.token)]
       IN  IF resp.Contents = <<>>
           THEN lister' = [asked EXCEPT !.pc = "raised"]
           ELSE LET got == [asked EXCEPT !.keys = @ \o resp.Contents]
                IN  IF resp.NextContinuationToken = <<>>
                    THEN lister' = [got EXCEPT !.pc = "returned"]
                    ELSE lister' = [got EXCEPT
                                       !.token = resp.NextContinuationToken,
                                       !.pc = IF lister.pages # 0 /\ n >= lister.pages
                                              THEN "returned" ELSE "loop"]
    /\ UNCHANGED <<remote, vanished, staged, consumed, usage, txConsumed, txUsage, pc, run,
                   initdb, s3_logs, listed, logs, batch, i, dl, k, rm, skipped, committed,
                   db0, failedIn, cause, short, other, prev, diff0, taken, staged0>>

ListNext == ListPage

ListSpec == ListInit /\ [][ListNext]_vars

(* ------------------------------ properties ----------------------------- *)

\* the rows of consumed_logs that carry a file name
RowsNamed(rows, f) == {n \in 1..Len(rows) : rows[n].filename = f}

\* the current run has read the listing and consumed_logs and has not been
\* stopped before that
Diffed == pc \in Running \cup {"done"} \/ (pc = "failed" /\ failedIn # "listing")

\* C1 (idempotence): when the previous run ended successfully and the
\* current run, started without --initdb, lists the same keys, the diff is
\* empty, no batch is taken and the two tables stay as the run found them.
C1_Idempotence ==
    (run >= 2 /\ prev.ended = "done" /\ ~initdb /\ listed = prev.listed /\ Diffed)
        => /\ logs = <<>>
           /\ batch = <<>>
           /\ txConsumed = <<>> /\ txUsage = <<>>
           /\ consumed = db0.consumed
           /\ usage = db0.usage

C1_Witness ==
    /\ run = 2 /\ prev.ended = "done" /\ ~initdb /\ listed = prev.listed
    /\ pc = "done"
    /\ Len(consumed) = 3

\* C2 (completeness): after a run that ended successfully, every listed key
\* whose base name was not consumed at the start has exactly one row in
\* consumed_logs and every line of its object in usage.  Stated for the
\* listed keys that share their base name with no other listed key; two
\* listed keys of one base name are the case of C6.
OnlyOfItsName(x) == \A y \in listed : basename(y) = basename(x) => y = x

C2_Completeness ==
    pc = "done" =>
        \A x \in listed :
            (basename(x) \notin consumed0 /\ OnlyOfItsName(x))
                => /\ Cardinality(RowsNamed(consumed, basename(x))) = 1
                   /\ Range(Content(x)) \subseteq Range(usage)

\* C3 (batch atomicity): when a run stops between the start of the inserts
\* of a batch and its commit, no row of consumed_logs carries the base name
\* of a key of the batch and no row of usage comes from a file of the batch;
\* and once the next run has computed its diff, every key of that batch
\* whose base name is still listed has its base name in the diff again.
StoppedMidBatch(at) == at \in {"insert", "commit"}

C3_BatchAtomicity ==
    /\ (pc = "failed" /\ StoppedMidBatch(failedIn))
          => \A j \in 1..Len(batch) :
                /\ RowsNamed(consumed, basename(batch[j])) = {}
                /\ \A n \in 1..Len(usage) : basename(usage[n].obj) # basename(batch[j])
    /\ (run >= 2 /\ StoppedMidBatch(prev.ended) /\ pc = "loop" /\ i = 0)
          => \A x \in prev.batch :
                basename(x) \in {basename(y) : y \in listed}
                    => \E n \in 1..Len(logs) : basename(logs[n]) = basename(x)

C3_Witness ==
    /\ run = 2 /\ prev.ended = "insert" /\ prev.k = 2 /\ pc = "loop" /\ i = 0
    /\ Cardinality(prev.batch) = 2
    /\ \A x \in prev.batch : \E n \in 1..Len(logs) : logs[n] = x

\* C4 as claimed (reclaim safety): in every state the staged file of a batch
\* entry has been deleted if and only if the batch has committed.
C4_DeletedIffCommitted ==
    \A j \in 1..Len(batch) : (rm[j] = "done") <=> committed

\* C4 as amended: a delete task of a batch is started only after the commit
\* of that batch has returned, and only the delete tasks remove files.
C4_DeleteOnlyAfterCommit ==
    /\ \A j \in 1..Len(batch) : rm[j] # "todo" => committed
    /\ (pc \in {"download", "insert", "commit"} /\ batch # <<>>)
          => \A j \in 1..Len(batch) :
                (dl[j] = "done" /\ j \notin skipped) => staged[LocalFile(batch[j])] # NoFile

C4_Witness ==
    /\ committed
    /\ \E j \in 1..Len(batch) : rm[j] = "done" /\ staged[LocalFile(batch[j])] = NoFile

\* C5 (uniqueness): consumed_logs, with the rows not yet committed, never
\* holds two rows that carry the same file name.
C5_ConsumedUnique ==
    LET rows == consumed \o txConsumed
    IN  \A m, n \in 1..Len(rows) : rows[m].filename = rows[n].filename => m = n

C5_Witness ==
    /\ run = 2 /\ ~initdb /\ pc = "done"
    /\ db0.consumed # <<>>
    /\ Len(consumed) > Len(db0.consumed)

\* C6 (dedup key): when the listing holds two keys with the same base name
\* under different directories and that name is not consumed, the run does
\* not stop for a file that was never staged, and when it ends exactly one
\* row carries that name and the file ingested came from one of the two.
SameBasePairs ==
    {pair \in listed \X listed :
        /\ pair[1] # pair[2]
        /\ basename(pair[1]) = basename(pair[2])
        /\ basename(pair[1]) \notin consumed0}

C6_DedupKey ==
    (Diffed /\ vanished = 0 /\ SameBasePairs # {})
        => /\ cause # "missing file"
           /\ pc = "done"
                => \A pair \in SameBasePairs :
                      Cardinality(RowsNamed(consumed, basename(pair[1]))) = 1

\* C8 (empty listing): when the listing matches no key and no transport
\* error occurs, the run does not raise: it ends with an empty diff and
\* leaves both tables as they were.
C8_EmptyListing ==
    (run > 0 /\ pc # "listed" /\ listed = {} /\ cause # "transport")
        => /\ pc \in {"loop", "done"}
           /\ logs = <<>>

\* C9 (not-found skip): a batch entry whose download reported 404 does not
\* make the run fail: the inserts never stop at a skipped entry.
C9_NotFoundSkip ==
    \A j \in skipped : ~(pc = "failed" /\ failedIn = "insert" /\ cause # "crash" /\ k = j)

\* C7 (diff result): the diff is the list, in ascending order of the full
\* key and without repetition, of exactly the listed keys whose base name is
\* not in consumed_logs.
Ascending(list) == \A n \in 1..(Len(list) - 1) : StrLess(list[n], list[n + 1])

C7_DiffResult ==
    pc \in {"diffed", "compared"}
        => /\ Ascending(logs)
           /\ Range(logs) = {x \in Range(s3_logs) : basename(x) \notin Names(consumed)}

\* C10 (ordering determinism): two runs on the same keys and the same
\* consumed_logs take the same batches, whatever the order of the listing
\* and of the iteration over the set of new names.
C10_SameBatches ==
    pc = "compared" => Batches(logs) = Batches(other.logs)

\* the entries of a list of batches, batch after batch
RECURSIVE Flatten(_)
Flatten(bs) == IF bs = <<>> THEN <<>> ELSE Head(bs) \o Flatten(Tail(bs))

\* the least number of groups of d that hold n entries
CeilDiv(n, d) == (n + d - 1) \div d

\* C11 (batch partition): every batch taken holds at most limit entries and
\* every batch but the last exactly limit; the batches taken, in the order
\* they were taken, followed by the pending list are the list cache was
\* called with; and a run that ends has taken ceil(N / limit) batches and
\* has an empty pending list.
C11_BatchPartition ==
    Diffed
        => /\ \A n \in 1..Len(taken) :
                 /\ Len(taken[n]) \in 1..limit
                 /\ (n < Len(taken) \/ logs # <<>>) => Len(taken[n]) = limit
           /\ Flatten(taken) \o logs = diff0
           /\ pc \in {"download", "insert", "commit", "delete"}
                 => /\ Len(taken) = i + 1
                    /\ batch = taken[i + 1]
           /\ pc = "done"
                 => /\ logs = <<>>
                    /\ Len(taken) = CeilDiv(Len(diff0), limit)
                    /\ i = CeilDiv(Len(diff0), limit)

C11_Witness ==
    /\ pc = "done"
    /\ Len(taken) >= 2
    /\ Len(diff0) % limit # 0

\* the number of pages the store splits a listing into: an empty listing is
\* one response without keys
PagesOf(all) == IF all = <<>> THEN 1 ELSE CeilDiv(Len(all), PageSize)

\* the number of pages get_s3_keys is to fetch: all of them, or as many as
\* the cap when --pages is given and smaller
ToFetch(all, pages) == IF pages # 0 /\ pages < PagesOf(all) THEN pages ELSE PagesOf(all)

\* the keys of the first n pages of a listing
FirstPages(all, n) == SubSeq(all, 1, IF Len(all) < n * PageSize THEN Len(all) ELSE n * PageSize)

Pagination ==
    /\ lister.pc # "raised"
    /\ Len(lister.requests) = lister.i
    /\ \A m \in 1..Len(lister.requests) :
          lister.requests[m] =
              IF m = 1 THEN <<>>
              ELSE list_objects_v2(lister.all, lister.requests[m - 1]).NextContinuationToken
    /\ lister.pc = "loop" => lister.i < ToFetch(lister.all, lister.pages)
    /\ lister.pc = "returned"
          => /\ lister.i = ToFetch(lister.all, lister.pages)
             /\ lister.keys = FirstPages(lister.all, lister.i)
             /\ lister.pages = 0 => lister.keys = lister.all
             /\ lister.keys = get_s3_keys(lister.all, lister.pages).keys

\* C12 (lister pagination): get_s3_keys sends its first request without a
\* token and every later one with the token of the response before it; it
\* stops exactly at the page without a token or at page number --pages, and
\* returns the keys of the pages fetched, in order: the whole listing when
\* --pages is not given.
C12_ListerPagination == Pagination

\* the same for the listings that hold a key
C12_ListingWithKeys == lister.all # <<>> => Pagination

\* three pages are fetched and the cap stops a fourth, or does not apply
C12_ThreePages ==
    /\ lister.pc = "returned"
    /\ lister.i = 3
    /\ lister.pages \in {0, 3}

\* the file names of the entries of the batches taken by the current run
TakenFiles == {LocalFile(key) : key \in Range(Flatten(taken))}

\* cache_dir holds no file
Empty(dir) == \A f \in FileNames : dir[f] = NoFile

\* C13 (staging empty after success): when a run ends successfully, no file
\* of a batch of that run is left in cache_dir: a file found there was there
\* when the run started and the run did not touch it, so a cache_dir that
\* was empty at the start is empty at the end.
C13_StagingClean ==
    pc = "done"
        => /\ \A f \in FileNames :
                 staged[f] # NoFile => (f \notin TakenFiles /\ staged[f] = staged0[f])
           /\ Empty(staged0) => Empty(staged)

C13_Witness ==
    /\ pc = "done"
    /\ Empty(staged0)
    /\ Cardinality(TakenFiles) >= 2
    /\ Len(consumed) > Len(db0.consumed)

\* the files in cache_dir
StagedFiles == {f \in FileNames : staged[f] # NoFile}

\* C14 (staged files of the batch in hand only): in every state of a run
\* that found cache_dir empty, every file in cache_dir is the download of an
\* entry of the batch in hand, so there are at most limit of them; and when
\* the loop is about to take the next batch, every delete of the batch
\* before it is done and cache_dir is empty again.
C14_StagedOfBatch ==
    (run > 0 /\ Empty(staged0))
        => /\ \A f \in StagedFiles :
                 \E j \in 1..Len(batch) :
                    /\ LocalFile(batch[j]) = f
                    /\ staged[f] = batch[j]
                    /\ dl[j] = "done"
           /\ Cardinality(StagedFiles) <= limit
           /\ pc \in {"loop", "done"} => Empty(staged)
           /\ (pc = "loop" /\ i > 0) => Joined(rm)

C14_Witness ==
    /\ Empty(staged0)
    /\ pc = "download"
    /\ i >= 1
    /\ Cardinality(StagedFiles) >= 1

\* C15 (download join barrier): no insert_log_db of an entry of the batch
\* starts while a worker of the download pool of that batch has not
\* finished: from the first insert to the end of the batch every download
\* task is done, also when the run stops there.
C15_DownloadBarrier ==
    LET at == IF pc = "failed" THEN failedIn ELSE pc
    IN  /\ at \in {"insert", "commit", "delete"} => Joined(dl)
        /\ (txConsumed # <<>> \/ txUsage # <<>>) => Joined(dl)

C15_Witness ==
    /\ pc = "insert"
    /\ k = 2
    /\ Len(dl) = 2
    /\ txConsumed # <<>>

\* the file contents insert_log_db reads for the first n entries of the
\* batch in hand, entry after entry
RECURSIVE StagedContents(_)
StagedContents(n) ==
    IF n = 0 THEN <<>>
    ELSE StagedContents(n - 1) \o Content(staged[LocalFile(batch[n])])

\* the batches of the current run whose rows are committed
CommittedBatches ==
    IF taken = <<>> \/ committed THEN taken ELSE SubSeq(taken, 1, Len(taken) - 1)

\* the rows of usage written by the current run
NewUsage == SubSeq(usage, Len(db0.usage) + 1, Len(usage))

\* the position in consumed_logs of the row that carries a file name
RowOf(f) == CHOOSE n \in 1..Len(consumed) : consumed[n].filename = f

\* C16 (deterministic insertion order): whatever the order in which the
\* download workers ran and finished, the rows of a batch are inserted in
\* the order of the batch list: entry n of the batch gives row n of
\* consumed_logs and then the lines of its file in file order; so the rows
\* pending, and the rows committed by the run, are a function of the batch
\* lists and the files alone.
C16_InsertionOrder ==
    /\ pc \in {"insert", "commit"}
          => /\ Len(txConsumed) = k - 1
             /\ \A n \in 1..(k - 1) :
                   txConsumed[n] =
                       [filename |-> basename(batch[n]),
                        size |-> Len(Content(staged[LocalFile(batch[n])]))]
             /\ txUsage = StagedContents(k - 1)
    /\ Diffed
          => /\ Len(consumed) = Len(db0.consumed) + Len(Flatten(CommittedBatches))
             /\ \A n \in 1..Len(Flatten(CommittedBatches)) :
                   consumed[Len(db0.consumed) + n].filename
                       = basename(Flatten(CommittedBatches)[n])
             /\ \A n \in 1..(Len(NewUsage) - 1) :
                   LET x == NewUsage[n]
                       y == NewUsage[n + 1]
                   IN  IF x.obj = y.obj THEN y.no = x.no + 1
                       ELSE /\ y.no = 1
                            /\ RowOf(basename(x.obj)) < RowOf(basename(y.obj))

C16_Witness ==
    /\ pc = "commit"
    /\ Len(txConsumed) = 2
    /\ Len(txUsage) >= 3
    /\ txUsage[1].obj # txUsage[Len(txUsage)].obj

\* no two entries of a list are stored under the same file name
DistinctFiles(list) ==
    \A m, n \in 1..Len(list) : LocalFile(list[m]) = LocalFile(list[n]) => m = n

\* C17 (distinct staging paths): no two entries of the list cache works on,
\* and so no two entries of a batch, have the same base name; two workers
\* of a pool that run at the same time never work on the same file.
C17_DistinctPaths ==
    /\ DistinctFiles(diff0)
    /\ DistinctFiles(batch)
    /\ \A m, n \in 1..Len(batch) :
          (m # n /\ (dl[m] = "run" \/ rm[m] = "run") /\ (dl[n] = "run" \/ rm[n] = "run"))
              => LocalFile(batch[m]) # LocalFile(batch[n])

C17_Witness ==
    /\ pc = "download"
    /\ Len(batch) = 2
    /\ dl[1] = "run" /\ dl[2] = "run"
    /\ \E x, y \in listed : x # y /\ basename(x) = basename(y)

\* the base names of the entries of the batches of the current run before
\* the batch in hand
EarlierNames == {basename(x) : x \in Range(Flatten(SubSeq(taken, 1, Len(taken) - 1)))}

\* C18 (fatal transport error): when a download of batch N raises an error
\* other than 404, the run stops with nothing of batch N inserted or
\* committed and no later batch taken: consumed_logs holds the names it held
\* before the run and one row for each entry of batches 1..N-1, usage holds
\* no row of another batch; and once the next run has computed its diff,
\* every entry of batch N and of the pending list whose base name is still
\* listed has its base name in the diff.
C18_TransportError ==
    /\ (pc = "failed" /\ failedIn = "download" /\ cause = "transport")
          => /\ txConsumed = <<>> /\ txUsage = <<>>
             /\ ~committed
             /\ Len(taken) = i + 1
             /\ Flatten(taken) \o logs = diff0
             /\ Names(consumed) = consumed0 \cup EarlierNames
             /\ Len(consumed) = Len(db0.consumed) + Cardinality(EarlierNames)
             /\ \A n \in 1..Len(NewUsage) : basename(NewUsage[n].obj) \in EarlierNames
    /\ (run >= 2 /\ prev.ended = "download" /\ prev.why = "transport" /\ pc = "loop" /\ i = 0)
          => \A x \in prev.batch \cup prev.rest :
                basename(x) \in {basename(y) : y \in listed}
                    => \E n \in 1..Len(logs) : basename(logs[n]) = basename(x)

\* a download of the second batch has raised after the first batch was
\* committed
C18_Witness ==
    /\ pc = "failed" /\ failedIn = "download" /\ cause = "transport"
    /\ i = 1
    /\ EarlierNames # {}
    /\ Len(consumed) > Len(db0.consumed)

\* the run after such a failure takes the entries of the failed batch and of
\* the pending list again
C18_Rerun ==
    /\ run >= 2 /\ prev.ended = "download" /\ prev.why = "transport" /\ pc = "loop" /\ i = 0
    /\ prev.rest # {}
    /\ \A x \in prev.batch \cup prev.rest : \E n \in 1..Len(logs) : logs[n] = x

\* the rows of consumed_logs written by the current run
NewConsumed == SubSeq(consumed, Len(db0.consumed) + 1, Len(consumed))

\* C19 (a skipped object is never marked consumed): a batch entry whose
\* download reported 404 in the current run has no row in consumed_logs and
\* no row in usage committed by that run, whatever earlier runs left in
\* cache_dir.
C19_SkippedNotConsumed ==
    Diffed
        => \A j \in skipped :
              /\ RowsNamed(NewConsumed, basename(batch[j])) = {}
              /\ \A n \in 1..Len(NewUsage) : basename(NewUsage[n].obj) # basename(batch[j])

\* C20 (no missing file on reclaim): when the delete pool of a batch starts,
\* and until a worker has removed it, the staged file of every entry of the
\* batch exists: os.remove never raises for a missing file.
C20_NoMissingFile ==
    /\ pc = "delete"
          => \A j \in 1..Len(batch) :
                rm[j] # "done" => staged[LocalFile(batch[j])] # NoFile
    /\ ~(pc = "failed" /\ failedIn = "delete" /\ cause = "missing file")

\* the delete pool starts on a batch of two, one of them skipped at download
C20_Witness ==
    /\ pc = "delete"
    /\ Len(batch) = 2
    /\ \A j \in 1..Len(batch) : rm[j] = "todo"
    /\ skipped # {}

====
